---- MODULE Spec2Model ----
(***************************************************************************)
(* The concurrent login executor of autologin:                             *)
(*   workers/executor_worker.py   ExecutorWorker, process_login            *)
(*   workers/playwright_driver.py PlaywrightDriver (start/stop/new_context)*)
(*   workers/broker_logins.py     run_broker_login, BROKER_LOGIN_FUNCTIONS *)
(* One asyncio event loop drives every process_login task; a step of the   *)
(* model is the code a task runs between two suspension points.            *)
(* request_stop() is called from the GUI thread and may fall between any   *)
(* two steps.                                                              *)
(***************************************************************************)
EXTENDS Integers, Sequences, FiniteSets, Bags, TLC

\* ------------------------------------------------------------------ bounds
NumJobs == 3
MaxConcurrent == 2
\* the seconds the wall clock can show
MaxTime == 2
\* the largest memory.available read, in quarters of a GB (256 MiB)
MaxAvailable == 40
\* the largest core count read
MaxCores == 16

Jobs == 1..NumJobs

\* broker ids of the ledger: one registered in BROKER_LOGIN_FUNCTIONS, one not
Brokers == {"zerodha", "unlisted"}

\* the brokers of login_tasks: the ledger is walked broker by broker, so the
\* accounts of one broker follow one another
LoginTaskBrokers ==
    {b \in [Jobs -> Brokers] :
        \A i, j, k \in Jobs : (i < j /\ j < k /\ b[i] = b[k]) => b[j] = b[i]}

BROKER_LOGIN_FUNCTIONS == {"zerodha"}

VARIABLES
    mainPc,          \* position of run() / _run_concurrent_logins
    stop_requested,  \* self._stop_requested
    max_concurrent,  \* self.max_concurrent
    broker,          \* login_tasks[j][0]
    account,         \* login_tasks[j][1], the account dict of job j
    pc,              \* position of each process_login task
    recorded,        \* the outcomes recorded for each job, in order
    sem_value,       \* semaphore._value
    sem_waiters,     \* semaphore._waiters, FIFO
    context,         \* the local `context` of each task (0 is None)
    created,         \* the browser contexts made so far
    openContexts,    \* ids of the browser contexts not closed
    result,          \* what run_broker_login gave each job
    raisedAt,        \* the call of each task that raised, if one did
    completed,
    successful,
    failed,
    statusEvents,    \* the dicts given to self.status.emit, as a bag
    progressEvents,  \* self.progress.emit(completed, total)
    playwright,      \* driver._playwright is running
    browser,         \* driver._browser is open
    stopCalls,       \* calls of driver.stop()
    ledgerFile,      \* what accounts.json holds
    flushes,         \* runs of the save block of _run_concurrent_logins
    stopBeforeStart, \* request_stop() ran before any task took its first step
    now,             \* the wall clock, in seconds
    preBatch,        \* the accounts as json.load gave them to this batch
    reading,         \* what psutil answers to detect_optimal_concurrency
    detected,        \* what detect_optimal_concurrency returned (0: not called)
    all_login,       \* self.all_login
    selected_accounts, \* self.selected_accounts: given or None, and the list
    override,        \* the max_concurrent argument of __init__: given or None
    login_tasks,     \* the accounts of login_tasks, in the order of the ledger
    guiAdded         \* the records accounts.json holds that the GUI added

vars == <<mainPc, stop_requested, max_concurrent, broker, account, pc, recorded,
          sem_value, sem_waiters, context, created, openContexts,
          result, raisedAt, completed, successful, failed, statusEvents,
          progressEvents, playwright, browser, stopCalls, ledgerFile, flushes,
          stopBeforeStart, now, preBatch, reading, detected,
          all_login, selected_accounts, override, login_tasks, guiAdded>>

jobVars == <<pc, recorded, sem_value, sem_waiters, context, created,
             openContexts, result, raisedAt, completed, successful, failed,
             account, statusEvents, progressEvents>>

hostVars == <<playwright, browser, stopCalls>>

fileVars == <<ledgerFile, flushes>>

batchVars == <<now, preBatch>>

planVars == <<reading, detected>>

argVars == <<all_login, selected_accounts, override>>

\* total = len(login_tasks)
total == Cardinality(login_tasks)

\* ------------------------------------------------------------------ helpers

\* Python's `a or b` on counts: None and 0 are false
Or(a, b) == IF a # 0 THEN a ELSE b

\* Python's min and max of two numbers
min(a, b) == IF a <= b THEN a ELSE b

max(a, b) == IF a >= b THEN a ELSE b

\* what psutil can answer: memory.available in quarters of a GB, the counts of
\* physical and logical cores (0: None), or an exception from either call
Readings ==
    [available : 0..MaxAvailable, physical : 0..MaxCores, logical : 0..MaxCores,
     raises : BOOLEAN]

NoReading == [available |-> 0, physical |-> 0, logical |-> 0, raises |-> FALSE]

\* usable_memory = max(0, available_gb - 2), in quarters of a GB
usable_memory(r) == max(0, r.available - 2 * 4)

\* memory_based_workers = int(usable_memory / 0.5)
memory_based_workers(r) == usable_memory(r) \div 2

\* (variant: the logical count is asked first)
cpu_count_logical_first(r) == Or(r.logical, Or(r.physical, 4))

\* cpu_count = psutil.cpu_count(logical=False) or psutil.cpu_count() or 4
cpu_count(r) == Or(r.physical, Or(r.logical, 4))

\* (variant: the ceiling is left out)
clamp_floor_only(n) == max(2, n)

\* max(2, min(15, optimal))
clamp(n) == max(2, min(15, n))

\* detect_optimal_concurrency()
detect_optimal_concurrency(r) ==
    IF r.raises THEN 4
    ELSE LET optimal == min(memory_based_workers(r), cpu_count(r))
         IN  clamp(optimal)

\* no max_concurrent argument, no selected_accounts argument
NoOverride == [given |-> FALSE, value |-> 0]

NoSelection == [given |-> FALSE, list |-> {}]

\* (variant: a max_concurrent of 0 is taken as it is given)
MaxConcurrentAsGiven(ov, r) ==
    IF ov.given THEN ov.value ELSE detect_optimal_concurrency(r)

\* (variant: the argument is not looked at)
MaxConcurrentDetected(ov, r) == detect_optimal_concurrency(r)

\* self.max_concurrent = max_concurrent or detect_optimal_concurrency():
\* None and 0 are false
MaxConcurrentOrDetect(ov, r) ==
    IF ov.given /\ ov.value # 0 THEN ov.value ELSE detect_optimal_concurrency(r)

\* `accounts = json.load(f) or {}`, and {} when the read raises; <<>> is the
\* ledger without an account
LoadAccounts(doc) == IF doc.intact THEN doc.content ELSE <<>>

\* (variant: a list that is given is used, also an empty one)
BuildLoginTasksListAsGiven(accounts, b, al, sel) ==
    IF sel.given
    THEN {j \in DOMAIN accounts : <<b[j], accounts[j].client_id>> \in sel.list}
    ELSE {j \in DOMAIN accounts : ~(~al /\ accounts[j].status = "Logged In")}

\* the accounts that go into login_tasks: `if self.selected_accounts:` is
\* false for None and for the empty list
BuildLoginTasks(accounts, b, al, sel) ==
    IF sel.given /\ sel.list # {}
    THEN {j \in DOMAIN accounts : <<b[j], accounts[j].client_id>> \in sel.list}
    ELSE {j \in DOMAIN accounts : ~(~al /\ accounts[j].status = "Logged In")}

\* an account record as add_to_account_list writes it
NewAccount(cid) == [client_id |-> cid, status |-> "Logged Out", last_login |-> 0]

\* (variant: the stop check never fires)
StopCheckSkipped(flag) == FALSE

\* `if self._stop_requested:` at the top of process_login
StopCheck(flag) == flag

\* (variant: a gate that is never locked)
SemNeverLocked(value, waiters) == FALSE

\* asyncio.Semaphore.locked()
SemLocked(value, waiters) == value = 0 \/ waiters # <<>>

\* (variant: a pooled context is handed out again while one is open)
PooledContextId(j, open) ==
    IF open # {} THEN CHOOSE id \in open : \A o \in open : id <= o ELSE j

\* the context a call of self._browser.new_context() makes: a new one at
\* every call, named after the task that called
NewContextId(j, open) == j

\* BROKER_LOGIN_FUNCTIONS.get(broker)
LoginFunc(b) == b \in BROKER_LOGIN_FUNCTIONS

\* (variant: the status message reads a key the account dict lacks)
MessageKeyTypo == "clientid"

\* the key of the account dict the per-job status message reads
MessageKey == "client_id"

\* (variant: the except handler forgets the count)
FaultNotCounted(f) == f

\* the except handler's `failed += 1`
FaultFailed(f) == f + 1

\* (variant: the document is written without the last_login field)
DumpWithoutLastLogin(acc) == [j \in Jobs |-> [acc[j] EXCEPT !.last_login = 0]]

\* the ledger as json.dump(accounts, f) writes it: every record, whole
Dump(acc) == [j \in Jobs |-> acc[j]]

\* (variant: the status is set and the time of the login is not)
LoggedInNoStamp(acc, t) == [acc EXCEPT !.status = "Logged In"]

\* (variant: a last_login that is set is kept)
LoggedInKeepFirst(acc, t) ==
    [acc EXCEPT !.status = "Logged In",
                !.last_login = IF acc.last_login # 0 THEN acc.last_login ELSE t]

\* the account update after a login that returned status True;
\* t is time.strftime("%Y-%m-%d %H:%M:%S"), the second the clock shows
LoggedIn(acc, t) == [acc EXCEPT !.status = "Logged In", !.last_login = t]

\* the account update after a login that returned status False
LoginFailedUpdate(acc) == [acc EXCEPT !.status = "Login Failed"]

\* the records accounts.json can hold for an account before a batch, at a
\* time t: as add_to_account_list made it, or as an earlier batch left it
LedgerRecords(cid, t) ==
    {NewAccount(cid)}
    \cup {[client_id |-> cid, status |-> st, last_login |-> u] :
             st \in {"Logged In", "Login Failed"}, u \in 1..t}
    \cup {[client_id |-> cid, status |-> "Login Failed", last_login |-> 0]}

\* the dicts a login function hands back, and a raised exception
NoResult == [kind |-> "none", status |-> FALSE, message |-> <<"", "">>]

Raised == [kind |-> "raised", status |-> FALSE, message |-> <<"error", "">>]

LoginOk ==
    [kind |-> "returned", status |-> TRUE, message |-> <<"Login successful", "">>]

LoginFailed ==
    [kind |-> "returned", status |-> FALSE, message |-> <<"Login failed", "">>]

\* (variant: the message leaves the broker out)
UnknownBrokerUnnamed(b) ==
    [kind |-> "returned", status |-> FALSE, message |-> <<"Unknown broker", "">>]

\* run_broker_login's answer for a broker without a login function
UnknownBroker(b) ==
    [kind |-> "returned", status |-> FALSE, message |-> <<"Unknown broker", b>>]

\* what `await login_func(page, account)` can do
StrategyResults == {LoginOk, LoginFailed, Raised}

\* run_broker_login(page, broker, account)
run_broker_login(b) == IF LoginFunc(b) THEN StrategyResults ELSE {UnknownBroker(b)}

\* the status dicts the worker emits
StartStatus(n, k) ==
    [kind |-> "start", status |-> TRUE, client |-> 0, text |-> <<"Starting login", "">>,
     a |-> k, b |-> 0, n |-> n, do_refresh |-> FALSE, final_update |-> FALSE]

JobStatus(cid, res) ==
    [kind |-> "job", status |-> res.status, client |-> cid, text |-> res.message,
     a |-> 0, b |-> 0, n |-> 0, do_refresh |-> res.status, final_update |-> FALSE]

FinalStatusEvent(s, f, n) ==
    [kind |-> "final", status |-> FALSE, client |-> 0, text |-> <<"Completed", "">>,
     a |-> s, b |-> f, n |-> n, do_refresh |-> TRUE, final_update |-> TRUE]

ExecutorError ==
    [kind |-> "error", status |-> FALSE, client |-> 0, text |-> <<"Executor error", "">>,
     a |-> 0, b |-> 0, n |-> 0, do_refresh |-> FALSE, final_update |-> FALSE]

\* (variant: the status of the empty ledger is not marked final)
NoAccountsStatusNotFinal ==
    [kind |-> "final", status |-> FALSE, client |-> 0,
     text |-> <<"No accounts to process", "">>,
     a |-> 0, b |-> 0, n |-> 0, do_refresh |-> FALSE, final_update |-> FALSE]

NoAccountsStatus ==
    [kind |-> "final", status |-> FALSE, client |-> 0,
     text |-> <<"No accounts to process", "">>,
     a |-> 0, b |-> 0, n |-> 0, do_refresh |-> FALSE, final_update |-> TRUE]

AllLoggedInStatus ==
    [kind |-> "final", status |-> FALSE, client |-> 0,
     text |-> <<"All accounts already logged in", "">>,
     a |-> 0, b |-> 0, n |-> 0, do_refresh |-> FALSE, final_update |-> TRUE]

\* (variant: run() swallows the exception without a word)
RunExceptSilent(events) == events

\* the except handler of run(): one "Executor error" status
RunExcept(events) == events (+) SetToBag({ExecutorError})

\* the state of job j: what was recorded for it last, else where its task stands
JobState(j) ==
    IF recorded[j] # <<>> THEN recorded[j][Len(recorded[j])]
    ELSE IF pc[j] \in {"new_context", "new_page", "login"} THEN "Running"
    ELSE "Pending"

\* (variant: the wait ends with the first task that is done)
GatherFirstDone == \E j \in login_tasks : pc[j] = "done"

\* `await asyncio.gather(*tasks, return_exceptions=True)` has every result
GatherDone == \A j \in login_tasks : pc[j] = "done"

\* every task has run up to its first suspension point
AllBegun == \A j \in login_tasks : pc[j] # "pending"

\* the worker as __init__ leaves it but for its arguments, with the document
\* doc in accounts.json, which json.load reads as acc
InitRun(k, b, acc, doc) ==
    /\ mainPc = "created"
    /\ stop_requested = FALSE
    /\ max_concurrent = k
    /\ broker = b
    /\ account = acc
    /\ preBatch = acc
    /\ pc = [j \in Jobs |-> "pending"]
    /\ recorded = [j \in Jobs |-> <<>>]
    /\ sem_value = 0
    /\ sem_waiters = <<>>
    /\ context = [j \in Jobs |-> 0]
    /\ created = {}
    /\ openContexts = {}
    /\ result = [j \in Jobs |-> NoResult]
    /\ raisedAt = [j \in Jobs |-> "none"]
    /\ completed = 0
    /\ successful = 0
    /\ failed = 0
    /\ statusEvents = EmptyBag
    /\ progressEvents = <<>>
    /\ playwright = FALSE
    /\ browser = FALSE
    /\ stopCalls = 0
    /\ ledgerFile = doc
    /\ flushes = 0
    /\ stopBeforeStart = FALSE
    /\ now = 1
    /\ login_tasks = {}
    /\ guiAdded = {}

\* the worker as ExecutorWorker(data_dir, max_concurrent=k) leaves it, with
\* the accounts acc in accounts.json
InitBatch(k, b, acc) ==
    /\ InitRun(k, b, acc, [intact |-> TRUE, content |-> Dump(acc)])
    /\ all_login = TRUE
    /\ selected_accounts = NoSelection
    /\ override = [given |-> TRUE, value |-> k]

\* a batch over accounts that were never run, with max_concurrent given
Init ==
    /\ \E k \in 1..MaxConcurrent, b \in LoginTaskBrokers :
          InitBatch(k, b, [j \in Jobs |-> NewAccount(j)])
    /\ reading = NoReading
    /\ detected = 0

\* ------------------------------------------------------------------ the GUI thread

\* request_stop(), from the GUI thread, at any moment of the worker's life.
\* The flag is read by the stop check alone: a request that comes when every
\* task is past the gate, or a second request, changes nothing anyone reads
RequestStop ==
    /\ mainPc \in {"created", "start", "gather"}
    /\ mainPc = "created" \/ \E j \in login_tasks : pc[j] \in {"pending", "waiting"}
    /\ ~stop_requested
    /\ stop_requested' = TRUE
    /\ stopBeforeStart' = \A j \in Jobs : pc[j] = "pending"
    /\ UNCHANGED <<mainPc, max_concurrent, broker, jobVars, hostVars, fileVars,
                   batchVars, planVars, argVars, login_tasks, guiAdded>>

\* ------------------------------------------------------------------ run()

\* run() up to the `async with PlaywrightDriver`: the ledger is loaded and the
\* tasks are listed; with no account or no task the final status is emitted
\* and the run is over; else the starting status is emitted, the counters
\* are zeroed and the semaphore is made. asyncio.Semaphore(value) raises
\* ValueError for a negative value, which run() reports
Run ==
    /\ mainPc = "created"
    /\ LET accounts == LoadAccounts(ledgerFile)
           tasks == BuildLoginTasks(accounts, broker, all_login, selected_accounts)
           starting == statusEvents (+) SetToBag({StartStatus(Cardinality(tasks), max_concurrent)})
       IN  /\ account' = accounts
           /\ IF accounts = <<>>
              THEN /\ mainPc' = "returned"
                   /\ statusEvents' = statusEvents (+) SetToBag({NoAccountsStatus})
                   /\ UNCHANGED <<login_tasks, completed, successful, failed,
                                  sem_value, sem_waiters>>
              ELSE IF tasks = {}
              THEN /\ mainPc' = "returned"
                   /\ login_tasks' = tasks
                   /\ statusEvents' = statusEvents (+) SetToBag({AllLoggedInStatus})
                   /\ UNCHANGED <<completed, successful, failed, sem_value, sem_waiters>>
              ELSE /\ login_tasks' = tasks
                   /\ completed' = 0
                   /\ successful' = 0
                   /\ failed' = 0
                   /\ IF max_concurrent < 0
                      THEN /\ mainPc' = "aborted"
                           /\ statusEvents' = RunExcept(starting)
                           /\ UNCHANGED <<sem_value, sem_waiters>>
                      ELSE /\ mainPc' = "start"
                           /\ statusEvents' = starting
                           /\ sem_value' = max_concurrent
                           /\ sem_waiters' = <<>>
    /\ UNCHANGED <<stop_requested, max_concurrent, broker, pc, recorded,
                   context, created, openContexts, result, raisedAt,
                   progressEvents, hostVars, fileVars, stopBeforeStart,
                   batchVars, planVars, argVars, guiAdded>>

\* PlaywrightDriver.__aenter__ -> start(); a raise leaves the `async with`
\* unentered, ends _run_concurrent_logins and is reported by run()
DriverStart ==
    /\ mainPc = "start"
    /\ \E outcome \in {"ok", "playwright_raises", "launch_raises"} :
        /\ playwright' = (outcome # "playwright_raises")
        /\ browser' = (outcome = "ok")
        /\ mainPc' = IF outcome = "ok" THEN "gather" ELSE "aborted"
        /\ statusEvents' = IF outcome = "ok" THEN statusEvents
                           ELSE RunExcept(statusEvents)
    /\ UNCHANGED <<stop_requested, max_concurrent, broker, account, pc, recorded,
                   sem_value, sem_waiters, context, created,
                   openContexts, result, raisedAt, completed, successful, failed,
                   progressEvents, stopCalls, fileVars, stopBeforeStart,
                   batchVars, planVars, argVars, login_tasks, guiAdded>>

\* ------------------------------------------------------------------ process_login

\* (variant: the slot goes to the waiter that came last)
ReleaseLast(j) ==
    IF sem_waiters # <<>>
    THEN /\ pc' = [pc EXCEPT ![j] = "done",
                             ![sem_waiters[Len(sem_waiters)]] = "new_context"]
         /\ sem_waiters' = SubSeq(sem_waiters, 1, Len(sem_waiters) - 1)
         /\ sem_value' = sem_value
    ELSE /\ pc' = [pc EXCEPT ![j] = "done"]
         /\ sem_waiters' = sem_waiters
         /\ sem_value' = sem_value + 1

\* (variant: the task ends without releasing the slot)
ReleaseLeaked(j) ==
    /\ pc' = [pc EXCEPT ![j] = "done"]
    /\ sem_waiters' = sem_waiters
    /\ sem_value' = sem_value

\* semaphore.release() as the task leaves `async with semaphore`: the slot goes
\* to the first waiter, which goes on to driver.new_context()
Release(j) ==
    IF sem_waiters # <<>>
    THEN /\ pc' = [pc EXCEPT ![j] = "done", ![Head(sem_waiters)] = "new_context"]
         /\ sem_waiters' = Tail(sem_waiters)
         /\ sem_value' = sem_value
    ELSE /\ pc' = [pc EXCEPT ![j] = "done"]
         /\ sem_waiters' = sem_waiters
         /\ sem_value' = sem_value + 1

\* the tail of the finally block, then the release of the slot
Finish(j) ==
    /\ completed' = completed + 1
    /\ progressEvents' = Append(progressEvents, <<completed + 1, total>>)
    /\ Release(j)

\* the finally block for a task whose `context` is c: close it first, if any
Finally(j, c) ==
    IF c # 0
    THEN /\ pc' = [pc EXCEPT ![j] = "closing"]
         /\ UNCHANGED <<sem_value, sem_waiters, completed, progressEvents>>
    ELSE Finish(j)

\* (variant: no except handler, the fault leaves the job unrecorded)
ExceptMissing(j, acc, f, rec) ==
    /\ account' = [account EXCEPT ![j] = acc]
    /\ failed' = f
    /\ recorded' = [recorded EXCEPT ![j] = rec]

\* the except handler
Except(j, acc, f, rec) ==
    /\ account' = [account EXCEPT ![j] = [acc EXCEPT !.status = "Login Failed"]]
    /\ failed' = FaultFailed(f)
    /\ recorded' = [recorded EXCEPT ![j] = Append(rec, "Failed")]

\* a task's first step, in the order gather() made the tasks: the stop check,
\* then the semaphore
ProcessLoginBegin(j) ==
    /\ mainPc = "gather"
    /\ j \in login_tasks
    /\ pc[j] = "pending"
    /\ \A i \in login_tasks : i < j => pc[i] # "pending"
    /\ IF StopCheck(stop_requested)
       THEN /\ pc' = [pc EXCEPT ![j] = "done"]
            /\ recorded' = [recorded EXCEPT ![j] = Append(@, "Cancelled")]
            /\ UNCHANGED <<sem_value, sem_waiters>>
       ELSE IF SemLocked(sem_value, sem_waiters)
       THEN /\ pc' = [pc EXCEPT ![j] = "waiting"]
            /\ sem_waiters' = Append(sem_waiters, j)
            /\ UNCHANGED <<sem_value, recorded>>
       ELSE /\ pc' = [pc EXCEPT ![j] = "new_context"]
            /\ sem_value' = sem_value - 1
            /\ UNCHANGED <<sem_waiters, recorded>>
    /\ UNCHANGED <<mainPc, stop_requested, max_concurrent, broker, account, context,
                   created, openContexts, result, raisedAt, completed, successful,
                   failed, statusEvents, progressEvents, hostVars, fileVars,
                   stopBeforeStart,
                   batchVars, planVars, argVars, login_tasks, guiAdded>>

\* `context = await driver.new_context()`: self._browser.new_context() makes
\* the context, _apply_stealth() adds the scripts to it, and only then is it
\* returned; either call may raise. The browser's answer is taken up by the
\* event loop after the first steps of all the tasks gather() made ready
NewContext(j) ==
    /\ AllBegun
    /\ pc[j] = "new_context"
    /\ \E outcome \in {"ok", "new_context_raises", "stealth_raises"} :
        LET id == NewContextId(j, openContexts) IN
        /\ created' = IF outcome = "new_context_raises" THEN created
                      ELSE created \cup {id}
        /\ openContexts' = IF outcome = "new_context_raises" THEN openContexts
                           ELSE openContexts \cup {id}
        /\ IF outcome = "ok"
           THEN /\ context' = [context EXCEPT ![j] = id]
                /\ pc' = [pc EXCEPT ![j] = "new_page"]
                /\ UNCHANGED <<account, failed, recorded, raisedAt, sem_value,
                               sem_waiters, completed, progressEvents>>
           ELSE /\ raisedAt' = [raisedAt EXCEPT ![j] = outcome]
                /\ Except(j, account[j], failed, recorded[j])
                /\ Finally(j, context[j])
                /\ UNCHANGED context
    /\ UNCHANGED <<mainPc, stop_requested, max_concurrent, broker, result,
                   successful, statusEvents, hostVars, fileVars, stopBeforeStart,
                   batchVars, planVars, argVars, login_tasks, guiAdded>>

\* context.new_page()
NewPage(j) ==
    /\ pc[j] = "new_page"
    /\ \E outcome \in {"ok", "new_page_raises"} :
        IF outcome = "ok"
        THEN /\ pc' = [pc EXCEPT ![j] = "login"]
             /\ UNCHANGED <<account, failed, recorded, raisedAt, sem_value,
                            sem_waiters, completed, progressEvents>>
        ELSE /\ raisedAt' = [raisedAt EXCEPT ![j] = outcome]
             /\ Except(j, account[j], failed, recorded[j])
             /\ Finally(j, context[j])
    /\ UNCHANGED <<mainPc, stop_requested, max_concurrent, broker, context, created,
                   openContexts, result, successful, statusEvents, hostVars,
                   fileVars, stopBeforeStart,
                   batchVars, planVars, argVars, login_tasks, guiAdded>>

\* run_broker_login(page, broker, account), the account update, the per-job
\* status, `return result`; or the except handler when something raised
RunBrokerLogin(j) ==
    /\ pc[j] = "login"
    /\ \E r \in run_broker_login(broker[j]) :
        /\ result' = [result EXCEPT ![j] = r]
        /\ IF r.kind = "raised"
           THEN /\ raisedAt' = [raisedAt EXCEPT ![j] = "login_raises"]
                /\ Except(j, account[j], failed, recorded[j])
                /\ UNCHANGED <<successful, statusEvents>>
           ELSE LET acc1 == IF r.status THEN LoggedIn(account[j], now)
                            ELSE LoginFailedUpdate(account[j])
                    s1 == IF r.status THEN successful + 1 ELSE successful
                    f1 == IF r.status THEN failed ELSE failed + 1
                    rec1 == Append(recorded[j], IF r.status THEN "Succeeded" ELSE "Failed")
                IN  /\ successful' = s1
                    /\ IF MessageKey \in DOMAIN acc1
                       THEN /\ statusEvents' =
                                statusEvents (+) SetToBag({JobStatus(acc1[MessageKey], r)})
                            /\ account' = [account EXCEPT ![j] = acc1]
                            /\ failed' = f1
                            /\ recorded' = [recorded EXCEPT ![j] = rec1]
                            /\ UNCHANGED raisedAt
                       ELSE /\ raisedAt' = [raisedAt EXCEPT ![j] = "message_raises"]
                            /\ Except(j, acc1, f1, rec1)
                            /\ UNCHANGED statusEvents
    /\ Finally(j, context[j])
    /\ UNCHANGED <<mainPc, stop_requested, max_concurrent, broker, context, created,
                   openContexts, hostVars, fileVars, stopBeforeStart,
                   batchVars, planVars, argVars, login_tasks, guiAdded>>

\* finally: `await context.close()` (a raise of close() is swallowed), the
\* completed count, the progress signal; then the slot is released
ContextClose(j) ==
    /\ pc[j] = "closing"
    /\ openContexts' = openContexts \ {context[j]}
    /\ Finish(j)
    /\ UNCHANGED <<mainPc, stop_requested, max_concurrent, broker, account, recorded,
                   context, created, result, raisedAt, successful, failed,
                   statusEvents, hostVars, fileVars, stopBeforeStart,
                   batchVars, planVars, argVars, login_tasks, guiAdded>>

\* ------------------------------------------------------------------ the end of the batch

\* gather() has every task's result: PlaywrightDriver.__aexit__ -> stop();
\* closing the browser closes whatever context is still open in it
DriverStop ==
    /\ mainPc = "gather"
    /\ GatherDone
    /\ mainPc' = "save"
    /\ browser' = FALSE
    /\ playwright' = FALSE
    /\ openContexts' = {}
    /\ stopCalls' = stopCalls + 1
    /\ UNCHANGED <<stop_requested, max_concurrent, broker, account, pc, recorded,
                   sem_value, sem_waiters, context, created, result, raisedAt,
                   completed, successful, failed, statusEvents, progressEvents,
                   fileVars, stopBeforeStart,
                   batchVars, planVars, argVars, login_tasks, guiAdded>>

\* (variant: the ledger is saved as soon as a job is done, and again)
SaveAccountsEarly ==
    /\ mainPc = "gather"
    /\ \E j \in Jobs : pc[j] = "done"
    /\ flushes < NumJobs
    /\ flushes' = flushes + 1
    /\ ledgerFile' = [intact |-> TRUE, content |-> Dump(account)]
    /\ UNCHANGED <<mainPc, stop_requested, max_concurrent, broker, jobVars, hostVars,
                   stopBeforeStart, batchVars, planVars, argVars, login_tasks, guiAdded>>

\* (variant: no try around the write, a raise of it ends the run)
SaveAccountsUnguarded ==
    /\ mainPc = "save"
    /\ flushes' = flushes + 1
    /\ \E outcome \in {"ok", "open_raises", "dump_raises"} :
        /\ ledgerFile' =
              CASE outcome = "ok" -> [intact |-> TRUE, content |-> Dump(account)]
                [] outcome = "open_raises" -> ledgerFile
                [] outcome = "dump_raises" -> [ledgerFile EXCEPT !.intact = FALSE]
        /\ guiAdded' = IF outcome = "open_raises" THEN guiAdded ELSE {}
        /\ mainPc' = IF outcome = "ok" THEN "final" ELSE "aborted"
        /\ statusEvents' = IF outcome = "ok" THEN statusEvents
                           ELSE RunExcept(statusEvents)
    /\ UNCHANGED <<stop_requested, max_concurrent, broker, pc, recorded, sem_value,
                   sem_waiters, context, created, openContexts, result, raisedAt,
                   completed, successful, failed, account, progressEvents, hostVars,
                   stopBeforeStart, batchVars, planVars, argVars, login_tasks>>

\* `with open(path, "w")`: json.dump(accounts, f); a raise is logged only
SaveAccounts ==
    /\ mainPc = "save"
    /\ mainPc' = "final"
    /\ flushes' = flushes + 1
    /\ \E outcome \in {"ok", "open_raises", "dump_raises"} :
        /\ ledgerFile' =
              CASE outcome = "ok" -> [intact |-> TRUE, content |-> Dump(account)]
                [] outcome = "open_raises" -> ledgerFile
                [] outcome = "dump_raises" -> [ledgerFile EXCEPT !.intact = FALSE]
        \* open(path, "w") empties the file: what the GUI wrote to it goes
        /\ guiAdded' = IF outcome = "open_raises" THEN guiAdded ELSE {}
    /\ UNCHANGED <<stop_requested, max_concurrent, broker, jobVars, hostVars,
                   stopBeforeStart,
                   batchVars, planVars, argVars, login_tasks>>

\* the final status
FinalStatus ==
    /\ mainPc = "final"
    /\ mainPc' = "done"
    /\ statusEvents' = statusEvents (+) SetToBag({FinalStatusEvent(successful, failed, total)})
    /\ UNCHANGED <<stop_requested, max_concurrent, broker, account, pc, recorded,
                   sem_value, sem_waiters, context, created, openContexts,
                   result, raisedAt, completed, successful, failed, progressEvents, hostVars,
                   fileVars, stopBeforeStart,
                   batchVars, planVars, argVars, login_tasks, guiAdded>>

Worker ==
    \/ Run
    \/ DriverStart
    \/ \E j \in Jobs : ProcessLoginBegin(j)
    \/ \E j \in Jobs : NewContext(j)
    \/ \E j \in Jobs : NewPage(j)
    \/ \E j \in Jobs : RunBrokerLogin(j)
    \/ \E j \in Jobs : ContextClose(j)
    \/ DriverStop
    \/ SaveAccounts
    \/ FinalStatus

Next == RequestStop \/ Worker

Spec == Init /\ [][Next]_vars

\* the event loop runs whatever is ready; every awaited browser call returns
\* or raises within its timeout
FairSpec == Spec /\ WF_vars(Worker)

\* ------------------------------------------------------------------ the ledger over time

\* a second passes on the wall clock. time.strftime() is the one reader of
\* the clock, in the account update after a login, so the second is let
\* pass where a login is under way
Tick ==
    /\ now < MaxTime
    /\ \E j \in Jobs : pc[j] = "login"
    /\ now' = now + 1
    /\ UNCHANGED <<mainPc, stop_requested, max_concurrent, broker, jobVars, hostVars,
                   fileVars, stopBeforeStart, preBatch, planVars, argVars,
                   login_tasks, guiAdded>>

\* a batch over a ledger in which the last account was logged in by an
\* earlier batch, at second 1, and is Logged In still or has failed since;
\* every login function registered
LedgerInit ==
    /\ \E r \in {x \in LedgerRecords(NumJobs, 1) : x.last_login # 0} :
          InitBatch(MaxConcurrent, [j \in Jobs |-> "zerodha"],
                    [j \in Jobs |-> IF j = NumJobs THEN r ELSE NewAccount(j)])
    /\ reading = NoReading
    /\ detected = 0

LedgerNext == Next \/ Tick

LedgerSpec == LedgerInit /\ [][LedgerNext]_vars

\* ------------------------------------------------------------------ the GUI and the ledger

\* add_to_account_list() in the GUI thread while the batch is in flight:
\* accounts.json is read, the new record is appended, the file is written
GuiAddAccount ==
    /\ mainPc \in {"start", "gather", "save"}
    /\ ledgerFile.intact
    /\ guiAdded = {}
    /\ guiAdded' = {NewAccount(NumJobs + 1)}
    /\ UNCHANGED <<mainPc, stop_requested, max_concurrent, broker, jobVars, hostVars,
                   fileVars, stopBeforeStart, batchVars, planVars, argVars,
                   login_tasks>>

\* a batch over new accounts during which the user adds an account
RaceInit ==
    /\ InitBatch(MaxConcurrent, [j \in Jobs |-> "zerodha"], [j \in Jobs |-> NewAccount(j)])
    /\ reading = NoReading
    /\ detected = 0

RaceNext == Next \/ GuiAddAccount

RaceSpec == RaceInit /\ [][RaceNext]_vars

\* ------------------------------------------------------------------ the worker's arguments

\* the documents accounts.json can hold when a batch starts: the accounts all
\* new or all logged in by an earlier batch, no account at all (also what a
\* missing file is made to hold), or a document json.load cannot read
WorkerLedgers ==
    {[intact |-> TRUE, content |-> Dump([j \in Jobs |-> NewAccount(j)])],
     [intact |-> TRUE, content |-> Dump([j \in Jobs |-> LoggedIn(NewAccount(j), 1)])],
     [intact |-> TRUE, content |-> <<>>],
     [intact |-> FALSE, content |-> Dump([j \in Jobs |-> NewAccount(j)])]}

\* the selected_accounts argument: None, the empty list, one account of the
\* ledger, a key no account has
WorkerSelections ==
    {NoSelection,
     [given |-> TRUE, list |-> {}],
     [given |-> TRUE, list |-> {<<"zerodha", 1>>}],
     [given |-> TRUE, list |-> {<<"unlisted", 1>>}]}

\* the max_concurrent argument: None, 0, a negative number, a positive one
WorkerOverrides ==
    {NoOverride, [given |-> TRUE, value |-> 0], [given |-> TRUE, value |-> 0 - 1],
     [given |-> TRUE, value |-> 1]}

\* ExecutorWorker(data_dir, all_login, max_concurrent, selected_accounts)
\* after __init__, on a machine with little memory free; max_concurrent is
\* varied for the workers that are given no list
WorkerInit ==
    \E doc \in WorkerLedgers, al \in BOOLEAN, sel \in WorkerSelections,
       ov \in WorkerOverrides :
        /\ sel = NoSelection \/ ov = [given |-> TRUE, value |-> 1]
        /\ InitRun(MaxConcurrentOrDetect(ov, NoReading), [j \in Jobs |-> "zerodha"],
                   LoadAccounts(doc), doc)
        /\ all_login = al
        /\ selected_accounts = sel
        /\ override = ov
        /\ reading = NoReading
        /\ detected = IF ov.given /\ ov.value # 0 THEN 0
                      ELSE detect_optimal_concurrency(NoReading)

WorkerSpec == WorkerInit /\ [][Next]_vars

\* ------------------------------------------------------------------ the planner

\* `max_concurrent or detect_optimal_concurrency()` in __init__, when no
\* max_concurrent is given
DetectOptimalConcurrency ==
    /\ detected = 0
    /\ detected' = detect_optimal_concurrency(reading)
    /\ UNCHANGED <<mainPc, stop_requested, max_concurrent, broker, jobVars, hostVars,
                   fileVars, stopBeforeStart, batchVars, reading, argVars,
                   login_tasks, guiAdded>>

PlanInit ==
    /\ InitBatch(1, [j \in Jobs |-> "zerodha"], [j \in Jobs |-> NewAccount(j)])
    /\ reading \in Readings
    /\ detected = 0

PlanNext == DetectOptimalConcurrency

PlanSpec == PlanInit /\ [][PlanNext]_vars

\* ================================================================== claims

\* the jobs whose task holds a context it got from new_context() and that is open
OpenSessionHolders == {j \in Jobs : context[j] # 0 /\ context[j] \in openContexts}

\* the jobs that passed the stop check
Ran == {j \in Jobs : pc[j] # "pending" /\ JobState(j) # "Cancelled"}

NumberIn(st) == Cardinality({j \in Jobs : JobState(j) = st})

Terminal == {"Succeeded", "Failed", "Cancelled"}

\* gather() has returned
BatchOver == mainPc \in {"save", "final", "done"}

FinalEvents == {e \in BagToSet(statusEvents) : e.final_update}

\* C1: with a budget K below the number of jobs, at most K jobs hold an open
\* session at any moment, whatever the interleaving of the tasks
C1_GateBoundsOpenSessions ==
    max_concurrent < NumJobs => Cardinality(OpenSessionHolders) <= max_concurrent

C1_Witness ==
    /\ max_concurrent >= 2
    /\ max_concurrent < NumJobs
    /\ Cardinality(OpenSessionHolders) = max_concurrent
    /\ sem_waiters # <<>>

\* C2 (as claimed): once the stop is requested, a job that is waiting for a
\* gate slot creates no session and leaves the gate only as Cancelled, and a
\* job that had started by then is never cancelled
C2_WaitingJobsEndCancelled ==
    [][\A j \in Jobs :
          /\ (stop_requested /\ pc[j] = "waiting") =>
                \/ pc'[j] = "waiting"
                \/ pc'[j] = "done" /\ JobState(j)' = "Cancelled" /\ j \notin created'
          /\ JobState(j) = "Running" => JobState(j)' # "Cancelled"]_vars

\* C3: a stop requested before the batch starts leaves every job Pending until
\* it is Cancelled: no gate slot is taken, no session is created, no strategy
\* is invoked, and at the end every job is Cancelled
C3_StopBeforeStartRunsNothing ==
    stopBeforeStart =>
        /\ \A j \in Jobs :
              /\ pc[j] \in {"pending", "done"}
              /\ JobState(j) \in {"Pending", "Cancelled"}
              /\ result[j].kind = "none"
              /\ context[j] = 0
        /\ created = {}
        /\ sem_waiters = <<>>
        /\ mainPc \notin {"created", "aborted"} => sem_value = max_concurrent
        /\ BatchOver => \A j \in Jobs : JobState(j) = "Cancelled"

C3_Witness ==
    /\ stopBeforeStart
    /\ mainPc = "done"
    /\ \A j \in Jobs : JobState(j) = "Cancelled"

\* C4: the counters are the numbers of jobs that ended Succeeded and Failed,
\* the final summary reports exactly them out of total, the three outcomes
\* add up to total, and a batch whose strategies all succeed reports
\* "total successful, 0 failed out of total"
C4_SummaryCountsOutcomes ==
    /\ successful = NumberIn("Succeeded")
    /\ failed = NumberIn("Failed")
    /\ mainPc = "done" =>
          /\ FinalEvents = {[kind |-> "final", status |-> FALSE, client |-> 0,
                             text |-> <<"Completed", "">>,
                             a |-> NumberIn("Succeeded"), b |-> NumberIn("Failed"),
                             n |-> NumJobs, do_refresh |-> TRUE, final_update |-> TRUE]}
          /\ \A e \in FinalEvents : CopiesIn(e, statusEvents) = 1
          /\ NumberIn("Succeeded") + NumberIn("Failed") + NumberIn("Cancelled") = NumJobs
          /\ (\A j \in Jobs : result[j].kind = "returned" /\ result[j].status) =>
                \A e \in FinalEvents : e.a = NumJobs /\ e.b = 0 /\ e.n = NumJobs

C4_Witness ==
    /\ mainPc = "done"
    /\ \E i, j, k \in Jobs :
          /\ JobState(i) = "Succeeded"
          /\ JobState(j) = "Failed"
          /\ JobState(k) = "Cancelled"

AllowedMoves ==
    {<<"Pending", "Running">>, <<"Running", "Succeeded">>, <<"Running", "Failed">>,
     <<"Pending", "Cancelled">>}

\* C5: a job's state moves only Pending -> Running -> Succeeded or Failed, or
\* Pending -> Cancelled; at most one outcome is ever recorded for a job, and
\* exactly one once the batch is over
C5_JobLifecycle ==
    /\ [](\A j \in Jobs :
            /\ Len(recorded[j]) <= 1
            /\ BatchOver => Len(recorded[j]) = 1 /\ JobState(j) \in Terminal)
    /\ [][\A j \in Jobs :
            JobState(j)' # JobState(j) => <<JobState(j), JobState(j)'>> \in AllowedMoves]_vars

C5_Witness ==
    /\ mainPc = "gather"
    /\ \E i, j, k \in Jobs :
          /\ JobState(i) = "Succeeded" /\ pc[i] = "done"
          /\ JobState(j) = "Running"
          /\ JobState(k) = "Cancelled"

\* C6 (as claimed): once a job's task has ended, no context made for it is open
C6_SessionClosedAfterJob ==
    \A j \in Jobs : pc[j] = "done" => j \notin openContexts

\* C7 (as claimed): no two jobs get the same session, cancelled jobs create
\* none, and at the end the sessions created are as many as the jobs that ran
C7_SessionPerJobRun ==
    /\ \A i, j \in Jobs : i # j /\ context[i] # 0 => context[i] # context[j]
    /\ \A j \in Jobs \ Ran : j \notin created /\ context[j] = 0
    /\ BatchOver => Cardinality(created) = Cardinality(Ran)

\* C7 (amended): no two jobs get the same session, jobs that did not pass the
\* stop check create none, and at the end the sessions created are as many as
\* the jobs that ran and whose browser.new_context() call did not raise
C7_SessionPerJobRunUnlessCreationRaised ==
    /\ \A i, j \in Jobs : i # j /\ context[i] # 0 => context[i] # context[j]
    /\ \A j \in Jobs \ Ran : j \notin created /\ context[j] = 0
    /\ Cardinality(created) <= Cardinality(Ran)
    /\ BatchOver =>
          Cardinality(created) =
              Cardinality({j \in Ran : raisedAt[j] # "new_context_raises"})

C7_Witness ==
    /\ BatchOver
    /\ \E i, j, k \in Jobs :
          /\ raisedAt[i] = "new_context_raises"
          /\ context[j] # 0
          /\ JobState(k) = "Cancelled"

\* C8 (as claimed): no session is created for a job whose broker has no login
\* function, and the job ends Failed
C8_UnknownBrokerNoSession ==
    \A j \in Jobs :
        broker[j] \notin BROKER_LOGIN_FUNCTIONS =>
            /\ j \notin created
            /\ context[j] = 0
            /\ j \in Ran /\ pc[j] = "done" => JobState(j) = "Failed"

\* the per-job status a job with an unregistered broker must get
UnknownBrokerStatus(j) ==
    [kind |-> "job", status |-> FALSE, client |-> account[j].client_id,
     text |-> <<"Unknown broker", broker[j]>>, a |-> 0, b |-> 0, n |-> 0,
     do_refresh |-> FALSE, final_update |-> FALSE]

\* C9: a job with an unregistered broker that is run with no fault of session or
\* page creation ends Failed with one status whose message names the broker;
\* the batch is not aborted by it; every other job that is run, and whose
\* strategy returns, ends with the outcome its strategy returned
C9_UnknownBrokerFailsAlone ==
    /\ \A j \in Jobs :
          (BatchOver /\ j \in Ran /\ raisedAt[j] = "none") =>
              /\ result[j].kind = "returned"
              /\ JobState(j) = IF result[j].status THEN "Succeeded" ELSE "Failed"
              /\ broker[j] \notin BROKER_LOGIN_FUNCTIONS =>
                    /\ JobState(j) = "Failed"
                    /\ CopiesIn(UnknownBrokerStatus(j), statusEvents) = 1
    /\ (\E j \in Jobs : broker[j] \notin BROKER_LOGIN_FUNCTIONS /\ result[j].kind = "returned") =>
          /\ mainPc # "aborted"
          /\ mainPc # "done" => ENABLED Worker

C9_Witness ==
    /\ mainPc = "done"
    /\ \E u, i, j \in Jobs :
          /\ broker[u] \notin BROKER_LOGIN_FUNCTIONS
          /\ CopiesIn(UnknownBrokerStatus(u), statusEvents) = 1
          /\ \A o \in Jobs \ {u} : broker[o] \in BROKER_LOGIN_FUNCTIONS
          /\ JobState(i) = "Succeeded"
          /\ j # u /\ JobState(j) = "Failed" /\ result[j].kind = "returned"

StartInvoked == mainPc \notin {"created", "start"}

\* the batch has run to an end, with or without its jobs
BatchEnded == mainPc \in {"done", "aborted"}

\* C11 (as claimed): stop() is invoked at most once, and exactly once by the
\* end of every batch in which start() was invoked, also when start() raised
C11_StopOncePerStart ==
    /\ stopCalls <= 1
    /\ (BatchEnded /\ StartInvoked) => stopCalls = 1

\* the status events about one job
JobEvents == {e \in BagToSet(statusEvents) : e.kind = "job"}

\* the status events that report an error of the batch
ErrorEvents == {e \in BagToSet(statusEvents) : e.kind = "error"}

\* C12: when the SessionHost fails to start, every job stays Pending for good:
\* no gate slot is taken, no session is created, no strategy is invoked, no
\* account record and no ledger record is changed; one batch-level error
\* status is emitted, no per-job status and no progress event
C12_StartFailureRunsNoJob ==
    mainPc = "aborted" =>
        /\ ~browser
        /\ \A j \in Jobs :
              /\ pc[j] = "pending"
              /\ JobState(j) = "Pending"
              /\ recorded[j] = <<>>
              /\ context[j] = 0
              /\ result[j] = NoResult
              /\ account[j] = preBatch[j]
        /\ created = {}
        /\ sem_value = max_concurrent /\ sem_waiters = <<>>
        /\ ledgerFile.content = Dump(preBatch) /\ flushes = 0
        /\ ErrorEvents = {ExecutorError}
        /\ CopiesIn(ExecutorError, statusEvents) = 1
        /\ JobEvents = {}
        /\ progressEvents = <<>>
        /\ completed = 0 /\ successful = 0 /\ failed = 0
        /\ ~ENABLED Worker

C12_Witness ==
    /\ mainPc = "aborted"
    /\ playwright
    /\ CopiesIn(ExecutorError, statusEvents) = 1

\* the SessionHost was stopped
HostStopped == stopCalls > 0

\* C13: the SessionHost is stopped only when every job is terminal, also in a
\* cancelled batch: while it is stopped no job is Running or holds an open
\* session, and no session is created after the stop
C13_HostStoppedAfterJobs ==
    /\ [](HostStopped =>
            /\ ~browser
            /\ \A j \in Jobs : pc[j] = "done" /\ JobState(j) \in Terminal
            /\ OpenSessionHolders = {}
            /\ openContexts = {})
    /\ [][/\ stopCalls' # stopCalls =>
                \A j \in Jobs : pc[j] = "done" /\ JobState(j) \in Terminal
          /\ HostStopped => created' = created /\ openContexts' = openContexts]_vars

C13_Witness ==
    /\ HostStopped
    /\ stop_requested
    /\ \E i, j \in Jobs :
          /\ JobState(i) = "Cancelled"
          /\ JobState(j) \in {"Succeeded", "Failed"} /\ j \in created

\* floor(max(0, available_gb - 2) / 0.5), the available memory in quarters of a GB
MemoryBudget(r) == IF r.available <= 8 THEN 0 ELSE (r.available - 8) \div 2

\* the physical core count or, when that is unavailable, the logical one
\* (0: neither is available)
CpuBudget(r) == IF r.physical # 0 THEN r.physical ELSE r.logical

Clamp(x, lo, hi) == IF x < lo THEN lo ELSE IF x > hi THEN hi ELSE x

\* detect_optimal_concurrency() has returned
Detected == detected # 0

\* C14: whatever the readings, the value returned is in [2, 15]; when both
\* readings are had, it is 2 if the available memory is at most 2 GB, and 15
\* if the memory budget and the core count are both at least 15
C14_PlanWithinFloorAndCeiling ==
    Detected =>
        /\ detected >= 2 /\ detected <= 15
        /\ ~reading.raises =>
              /\ reading.available <= 2 * 4 => detected = 2
              /\ (MemoryBudget(reading) >= 15 /\ CpuBudget(reading) >= 15) =>
                    detected = 15

C14_Witness ==
    /\ Detected
    /\ ~reading.raises
    /\ MemoryBudget(reading) > 15
    /\ reading.physical = 0 /\ reading.logical > 15
    /\ detected = 15

Becomes(j, st) == JobState(j) # st /\ JobState(j)' = st

\* the step wrote a whole document to accounts.json
WroteLedger == ledgerFile' # ledgerFile /\ ledgerFile'.intact

\* C16: the account of a job that ends Succeeded has status Logged In and the
\* second the job ended as last_login; the account of a job that ends Failed,
\* by an answer or by a fault, has status Login Failed; the record stays so
\* to the end of the batch and goes so into the ledger file
C16_AccountFollowsOutcome ==
    /\ [](\A j \in Jobs :
            /\ JobState(j) = "Succeeded" =>
                  /\ account[j].status = "Logged In"
                  /\ account[j].last_login \in 1..now
            /\ JobState(j) = "Failed" => account[j].status = "Login Failed")
    /\ [][\A j \in Jobs :
            /\ Becomes(j, "Succeeded") =>
                  account'[j] = [account[j] EXCEPT !.status = "Logged In", !.last_login = now]
            /\ Becomes(j, "Failed") =>
                  account'[j] = [account[j] EXCEPT !.status = "Login Failed"]
            /\ JobState(j) \in Terminal => account'[j] = account[j]
            /\ WroteLedger => ledgerFile'.content[j] = account[j]]_vars

C16_Witness ==
    /\ mainPc = "done"
    /\ ledgerFile = [intact |-> TRUE, content |-> account]
    /\ \E i, j, k \in Jobs :
          /\ JobState(i) = "Succeeded" /\ account[i].last_login = 1
          /\ JobState(j) = "Succeeded" /\ account[j].last_login = 2
          /\ JobState(k) = "Failed" /\ raisedAt[k] = "login_raises"
          /\ account[k].status = "Login Failed"

\* C17: a job that ends Cancelled leaves its account as the batch found it,
\* in memory and in the ledger file once that is written, and is counted
\* neither in successful nor in failed
C17_CancelledLeavesAccount ==
    /\ \A j \in Jobs :
          JobState(j) = "Cancelled" =>
              /\ account[j] = preBatch[j]
              /\ ledgerFile.intact => ledgerFile.content[j] = preBatch[j]
    /\ successful + failed = Cardinality({j \in Jobs : JobState(j) \in {"Succeeded", "Failed"}})
    /\ successful + failed + NumberIn("Cancelled") <= NumJobs

C17_Witness ==
    /\ mainPc = "done"
    /\ ledgerFile = [intact |-> TRUE, content |-> account]
    /\ ledgerFile.content # preBatch
    /\ \E j \in Jobs :
          /\ JobState(j) = "Cancelled"
          /\ preBatch[j].status = "Logged In" /\ preBatch[j].last_login = 1
          /\ ledgerFile.content[j] = preBatch[j]
    /\ successful + failed = NumJobs - 1

\* the jobs whose account the preceding batch logged in
LoggedInBefore == {j \in Jobs : preBatch[j].status = "Logged In"}

\* C18: a job that succeeded in the preceding batch and succeeds again has
\* status Logged In again and the second of this run as last_login, never an
\* older one than the preceding batch left; and what a batch leaves of an
\* account is a record the next batch can start from
C18_ReplayKeepsLoggedIn ==
    /\ [](\A j \in Jobs :
            /\ account[j] \in LedgerRecords(j, now)
            /\ (j \in LoggedInBefore /\ JobState(j) = "Succeeded") =>
                  /\ account[j].status = "Logged In"
                  /\ account[j].last_login >= preBatch[j].last_login
                  /\ BatchOver /\ ledgerFile.intact /\ ledgerFile.content # Dump(preBatch) =>
                        ledgerFile.content[j] = account[j])
    /\ [][\A j \in LoggedInBefore :
            Becomes(j, "Succeeded") =>
                /\ account'[j].status = "Logged In"
                /\ account'[j].last_login = now
                /\ account'[j].last_login >= account[j].last_login]_vars

C18_Witness ==
    /\ mainPc = "done"
    /\ \E j \in LoggedInBefore :
          /\ preBatch[j].last_login = 1
          /\ JobState(j) = "Succeeded"
          /\ account[j] = [client_id |-> j, status |-> "Logged In", last_login |-> 2]
          /\ ledgerFile = [intact |-> TRUE, content |-> account]

C20_LedgerAlwaysWhole ==
    /\ ledgerFile.intact
    /\ ledgerFile.content \in {Dump(preBatch), Dump(account)}

\* C21 (as claimed): no step takes a record the GUI added out of the ledger
\* file, and a step that writes the file changes nothing but status and
\* last_login of the accounts of the batch
C21_FlushKeepsGuiRecords ==
    [][/\ guiAdded \subseteq guiAdded'
       /\ WroteLedger =>
             \A j \in Jobs :
                 ledgerFile'.content[j].client_id = ledgerFile.content[j].client_id]_vars

\* the selected_accounts argument over every list of (broker, client_id) keys
Selections ==
    {NoSelection} \cup {[given |-> TRUE, list |-> l] : l \in SUBSET (Brokers \X Jobs)}

\* a worker of either mode, with or without a list, before run(), over a
\* ledger of accounts of every status
SelectInit ==
    \E st \in [Jobs -> {"Logged Out", "Logged In", "Login Failed"}],
       b \in LoginTaskBrokers, al \in BOOLEAN, sel \in Selections :
        LET acc == [j \in Jobs |-> [NewAccount(j) EXCEPT !.status = st[j]]]
        IN  /\ InitRun(1, b, acc, [intact |-> TRUE, content |-> Dump(acc)])
            /\ all_login = al
            /\ selected_accounts = sel
            /\ override = [given |-> TRUE, value |-> 1]
            /\ reading = NoReading
            /\ detected = 0

\* the selection is made in the first step of run()
SelectSpec == SelectInit /\ [][Run]_vars

\* json.load could not read the ledger this run found
ReadFailed == ~ledgerFile.intact /\ flushes = 0

\* the write at the end of the batch raised
WriteFailed ==
    /\ flushes = 1
    /\ ~ledgerFile.intact \/ ledgerFile.content # Dump(account)

\* C22: when the ledger cannot be read the run goes on with no account and
\* ends with one final status, no exception reaching run(); when the write at
\* the end of the batch raises, no exception reaches run() either, the final
\* summary is emitted after it, and no per-job status comes after the write
C22_LedgerFaultsDoNotRaise ==
    /\ []((ReadFailed /\ mainPc # "created") =>
            /\ mainPc = "returned"
            /\ account = <<>>
            /\ statusEvents = SetToBag({NoAccountsStatus})
            /\ ~ENABLED Worker)
    /\ [](WriteFailed =>
            /\ mainPc \in {"final", "done"}
            /\ ErrorEvents = {}
            /\ mainPc = "done" =>
                  /\ FinalEvents = {FinalStatusEvent(successful, failed, total)}
                  /\ \A e \in FinalEvents : CopiesIn(e, statusEvents) = 1)
    /\ [][/\ flushes' # flushes => mainPc' = "final" /\ statusEvents' = statusEvents
          /\ flushes >= 1 =>
                \/ statusEvents' = statusEvents
                \/ /\ mainPc = "final" /\ mainPc' = "done"
                   /\ statusEvents' = statusEvents (+)
                         SetToBag({FinalStatusEvent(successful, failed, total)})]_vars

C22_Witness ==
    /\ mainPc = "done"
    /\ ~ledgerFile.intact
    /\ JobEvents # {}
    /\ FinalEvents # {}

\* the gate has just been made
GateMade == mainPc = "start"

SlotHolders ==
    {j \in login_tasks : pc[j] \in {"new_context", "new_page", "login", "closing"}}

\* C29: whatever the max_concurrent argument (None, 0, positive, negative),
\* a batch with jobs either gets a gate of capacity at least 1 or ends with
\* one batch-level error before any job starts; while tasks are under way they
\* are never all waiting at the gate
C29_GateCapacityAtLeastOne ==
    /\ GateMade => sem_value >= 1
    /\ mainPc \in {"start", "gather", "save", "final", "done"} =>
          /\ max_concurrent >= 1
          /\ sem_value + Cardinality(SlotHolders) = max_concurrent
    /\ max_concurrent < 1 =>
          /\ mainPc \in {"created", "returned", "aborted"}
          /\ \A j \in Jobs : pc[j] = "pending" /\ JobState(j) = "Pending"
          /\ mainPc = "aborted" => CopiesIn(ExecutorError, statusEvents) = 1
    /\ mainPc = "gather" =>
          /\ ENABLED Worker
          /\ sem_waiters # <<>> => SlotHolders # {}

C29_Witness ==
    /\ override = [given |-> TRUE, value |-> 0 - 1]
    /\ mainPc = "aborted"
    /\ login_tasks = Jobs
    /\ CopiesIn(ExecutorError, statusEvents) = 1
    /\ \A j \in Jobs : pc[j] = "pending"

\* C30: when the ledger holds no account or no account is selected, the run
\* ends at once with one final status and no other event; the SessionHost is
\* not started, no session is created, no job leaves Pending, nothing is
\* written to the ledger file
C30_NoJobsOnlyFinalStatus ==
    /\ [](mainPc # "created" => (mainPc = "returned" <=> login_tasks = {}))
    /\ [](mainPc = "returned" =>
            /\ \E e \in {NoAccountsStatus, AllLoggedInStatus} :
                  /\ statusEvents = SetToBag({e})
                  /\ e.final_update
                  /\ (e = NoAccountsStatus) <=> (account = <<>>)
            /\ ~playwright /\ ~browser /\ stopCalls = 0
            /\ created = {} /\ openContexts = {}
            /\ progressEvents = <<>>
            /\ flushes = 0
            /\ \A j \in Jobs : pc[j] = "pending" /\ recorded[j] = <<>>
            /\ ~ENABLED Next)
    /\ [][mainPc' = "returned" => ledgerFile' = ledgerFile /\ guiAdded' = guiAdded]_vars

C30_Witness ==
    /\ mainPc = "returned"
    /\ ~all_login
    /\ account # <<>>
    /\ \A j \in Jobs : account[j].status = "Logged In"
    /\ statusEvents = SetToBag({AllLoggedInStatus})

\* the accounts whose (broker, client_id) key is in the list that was given
Listed == {j \in Jobs : <<broker[j], account[j].client_id>> \in selected_accounts.list}

\* C25: once run() has made the selection, the jobs are every account in mode
\* 'all', the accounts whose status is not Logged In in mode 'failed-only',
\* and, whenever a list is given, also the empty one, the accounts whose
\* (broker, client_id) is in the list
C25_SelectionFollowsMode ==
    mainPc # "created" =>
        login_tasks = IF selected_accounts.given THEN Listed
                      ELSE IF all_login THEN Jobs
                      ELSE {j \in Jobs : account[j].status # "Logged In"}

\* the per-job status events emitted for job j, counted with repetition
StatusCount(j) ==
    LET of == {e \in JobEvents : e.client = account[j].client_id}
        RECURSIVE Sum(_)
        Sum(es) == IF es = {} THEN 0
                   ELSE LET e == CHOOSE x \in es : TRUE
                        IN  CopiesIn(e, statusEvents) + Sum(es \ {e})
    IN  Sum(of)

\* C23: a job that was run and has ended, Succeeded or Failed, by what its
\* strategy returned or by a raised fault, has exactly one per-job status
\* event, and the flag of the event tells whether it Succeeded
C23_OneStatusPerRunJob ==
    \A j \in Ran :
        pc[j] = "done" =>
            /\ StatusCount(j) = 1
            /\ \A e \in JobEvents :
                  e.client = account[j].client_id =>
                      (e.status <=> JobState(j) = "Succeeded")

\* C27: the progress events count 1, 2, ... with the batch's total next to
\* each; every job that has ended, the Cancelled ones too, has made one, so
\* that the last one of a batch that is over is (total, total)
C27_ProgressCountsEveryJob ==
    /\ \A i \in 1..Len(progressEvents) : progressEvents[i] = <<i, total>>
    /\ Len(progressEvents) = Cardinality({j \in login_tasks : pc[j] = "done"})
    /\ BatchOver => /\ Len(progressEvents) = total
                    /\ progressEvents[Len(progressEvents)] = <<total, total>>

\* a batch over accounts of registered brokers, with max_concurrent given
GateInit ==
    /\ \E k \in 1..MaxConcurrent :
          InitBatch(k, [j \in Jobs |-> "zerodha"], [j \in Jobs |-> NewAccount(j)])
    /\ reading = NoReading
    /\ detected = 0

\* the event loop runs whatever is ready; every awaited browser call returns
\* or raises within its timeout
GateSpec == GateInit /\ [][Next]_vars /\ WF_vars(Worker)

\* the tasks that have not come to the gate yet or wait at it
BeforeGate == {j \in login_tasks : pc[j] \in {"pending", "waiting"}}

\* C24: a task gets a slot of the gate only when every task made before it
\* has been at the gate and left the queue, so the slots are taken in the
\* order the jobs were submitted; the queue is in that order; and, the event
\* loop running what is ready, a task that waits at the gate does not wait
\* forever
C24_SlotsInSubmissionOrder ==
    /\ [][\A j \in BeforeGate :
             pc'[j] = "new_context" => \A i \in BeforeGate : j <= i]_vars
    /\ [](\A m, n \in 1..Len(sem_waiters) : m < n => sem_waiters[m] < sem_waiters[n])
    /\ (sem_waiters # <<>>) ~> (sem_waiters = <<>>)

C24_Witness ==
    /\ Len(sem_waiters) = 1
    /\ \E j \in Jobs : pc[j] = "new_context" /\ j > 1 /\ pc[1] = "done" /\ j < sem_waiters[1]
    /\ ~stop_requested

====
